---- MODULE Spec2Model ----
(***************************************************************************)
(* Model of candle's math module: the ApproxEq trait (src/math/approx_eq.rs)*)
(* and the Vec2 type with its arithmetic (src/math/vec2.rs).               *)
(*                                                                         *)
(* f64 is modelled as a binary IEEE-754 format of reduced size: Prec bits  *)
(* of significand, exponents Emin..Emax, subnormals, signed zeros,         *)
(* infinities and NaN, with every operation correctly rounded to nearest,  *)
(* ties to even.  A finite value is sign * mag * 2^(Emin - Prec + 1).      *)
(***************************************************************************)
EXTENDS Integers, FiniteSets, Sequences, TLC

\* ------------------------------------------------------------------------
\* The floating-point format
\* ------------------------------------------------------------------------
Prec == 4
Emax == 3

Emin == 1 - Emax
ExpRange == Emax - Emin
UnitExp == Prec - 1 - Emin
MaxMag == (2^Prec - 1) * 2^ExpRange
OneMag == 2^UnitExp
EpsMag == 2^(UnitExp - (Prec - 1))
MinNormalMag == 2^(Prec - 1)

Mags == (0..(2^Prec - 1)) \cup
        { m * 2^k : m \in (2^(Prec - 1))..(2^Prec - 1), k \in 1..ExpRange }

Fin(sign, mag) == [cls |-> "fin", sign |-> sign, mag |-> mag]
NAN == [cls |-> "nan", sign |-> 0, mag |-> 0]
INFINITY == [cls |-> "inf", sign |-> 0, mag |-> 0]
NEG_INFINITY == [cls |-> "inf", sign |-> 1, mag |-> 0]
Inf(sign) == IF sign = 0 THEN INFINITY ELSE NEG_INFINITY

F64 == {NAN, INFINITY, NEG_INFINITY} \cup { Fin(s, m) : s \in {0, 1}, m \in Mags }

ZERO == Fin(0, 0)
NEG_ZERO == Fin(1, 0)
ONE == Fin(0, OneMag)
NEG_ONE == Fin(1, OneMag)
PRED_ONE == Fin(0, OneMag - (EpsMag \div 2))
SUCC_ONE == Fin(0, OneMag + EpsMag)
MAX == Fin(0, MaxMag)
\* f64::EPSILON: the distance from 1.0 to the next larger value
EPSILON == Fin(0, EpsMag)

is_nan(a) == a.cls = "nan"
is_finite(a) == a.cls = "fin"
is_zero(a) == a.cls = "fin" /\ a.mag = 0
is_normal(a) == a.cls = "fin" /\ a.mag >= MinNormalMag

\* Spacing of the representable magnitudes around q
RECURSIVE Ulp(_)
Ulp(q) == IF q < 2^Prec THEN 1 ELSE 2 * Ulp(q \div 2)

\* The magnitude num/den (in units), rounded to nearest, ties to even;
\* magnitudes beyond the largest finite one round to infinity.
Round(sign, num, den) ==
    LET q == num \div den IN
    IF q >= 2^(Prec + ExpRange) THEN Inf(sign)
    ELSE LET u == Ulp(q)
             lo == (q \div u) * u
             twiceRem == 2 * (num - lo * den)
             up == \/ twiceRem > u * den
                   \/ twiceRem = u * den /\ (lo \div u) % 2 = 1
             r == IF up THEN lo + u ELSE lo
         IN IF r > MaxMag THEN Inf(sign) ELSE Fin(sign, r)

\* Signed value in units; the infinities lie beyond every finite value
Key(a) == IF a.cls = "inf"
          THEN (IF a.sign = 0 THEN MaxMag + 1 ELSE 0 - (MaxMag + 1))
          ELSE (IF a.sign = 0 THEN a.mag ELSE 0 - a.mag)

fneg(a) == IF is_nan(a) THEN NAN ELSE [a EXCEPT !.sign = 1 - a.sign]

fabs(a) == IF is_nan(a) THEN NAN ELSE [a EXCEPT !.sign = 0]

fadd(a, b) ==
    IF is_nan(a) \/ is_nan(b) THEN NAN
    ELSE IF a.cls = "inf"
         THEN (IF b.cls = "inf" /\ a.sign # b.sign THEN NAN ELSE a)
    ELSE IF b.cls = "inf" THEN b
    ELSE LET v == Key(a) + Key(b) IN
         IF v = 0 THEN Fin(IF a.sign = 1 /\ b.sign = 1 THEN 1 ELSE 0, 0)
         ELSE IF v < 0 THEN Round(1, 0 - v, 1)
         ELSE Round(0, v, 1)

fsub(a, b) == fadd(a, fneg(b))

fmul(a, b) ==
    IF is_nan(a) \/ is_nan(b) THEN NAN
    ELSE LET sign == (a.sign + b.sign) % 2 IN
         IF a.cls = "inf" \/ b.cls = "inf"
         THEN (IF is_zero(a) \/ is_zero(b) THEN NAN ELSE Inf(sign))
         ELSE Round(sign, a.mag * b.mag, 2^UnitExp)

fdiv(a, b) ==
    IF is_nan(a) \/ is_nan(b) THEN NAN
    ELSE LET sign == (a.sign + b.sign) % 2 IN
         IF a.cls = "inf" THEN (IF b.cls = "inf" THEN NAN ELSE Inf(sign))
         ELSE IF b.cls = "inf" THEN Fin(sign, 0)
         ELSE IF b.mag = 0 THEN (IF a.mag = 0 THEN NAN ELSE Inf(sign))
         ELSE Round(sign, a.mag * 2^UnitExp, b.mag)

\* Largest r with r * r <= n
RECURSIVE ISqrt(_)
ISqrt(n) == IF n < 2 THEN n
            ELSE LET r == 2 * ISqrt(n \div 4) IN
                 IF (r + 1) * (r + 1) <= n THEN r + 1 ELSE r

fsqrt(a) ==
    IF is_nan(a) THEN NAN
    ELSE IF is_zero(a) THEN a
    ELSE IF a.sign = 1 THEN NAN
    ELSE IF a.cls = "inf" THEN a
    ELSE LET X == a.mag * 2^UnitExp
             u == Ulp(ISqrt(X))
             lo == (ISqrt(X) \div u) * u
             mid2 == (2 * lo + u) * (2 * lo + u)
             up == \/ 4 * X > mid2
                   \/ 4 * X = mid2 /\ (lo \div u) % 2 = 1
         IN Fin(0, IF up THEN lo + u ELSE lo)

\* The comparison a <= b: false when either side is NaN
fle(a, b) == ~is_nan(a) /\ ~is_nan(b) /\ Key(a) <= Key(b)

\* The comparison a < b: false when either side is NaN
flt(a, b) == ~is_nan(a) /\ ~is_nan(b) /\ Key(a) < Key(b)

\* ------------------------------------------------------------------------
\* src/math/approx_eq.rs: impl ApproxEq<f64> for f64
\* ------------------------------------------------------------------------
\* Variant: a tolerance relative to the receiver instead of an absolute one
f64_approx_eq_eps_relative(self, other, eps) ==
    flt(fabs(fsub(self, other)), fmul(eps, fabs(self)))

f64_approx_eq_eps(self, other, eps) == flt(fabs(fsub(self, other)), eps)

\* Variant: the comparison repeated with <= instead of delegating
f64_approx_eq_inclusive(self, other) ==
    fle(fabs(fsub(self, other)), EPSILON)

f64_approx_eq(self, other) == f64_approx_eq_eps(self, other, EPSILON)

\* ------------------------------------------------------------------------
\* src/math/vec2.rs: Vec2
\* ------------------------------------------------------------------------
Vec2 == [x : F64, y : F64]

new(x, y) == [x |-> x, y |-> y]

VEC2_EPSILON == [x |-> EPSILON, y |-> EPSILON]
VEC2_IDENTITY == [x |-> ONE, y |-> ONE]

\* Variant: the second product takes the wrong coordinate of `other`
dot_crossed(self, other) ==
    fadd(fmul(self.x, other.x), fmul(self.y, other.x))

dot(self, other) == fadd(fmul(self.x, other.x), fmul(self.y, other.y))

\* Variant: the squared length, the square root forgotten
length_squared(self) == fadd(fmul(self.x, self.x), fmul(self.y, self.y))

length(self) == fsqrt(fadd(fmul(self.x, self.x), fmul(self.y, self.y)))

magnitude(self) == length(self)

\* Variant: divides by the squared length
normalized_by_dot(self) ==
    LET d == dot(self, self) IN new(fdiv(self.x, d), fdiv(self.y, d))

\* Variant: a guard that returns the zero vector for a zero length
normalized_guarded(self) ==
    LET len == length(self) IN
    IF is_zero(len) THEN new(ZERO, ZERO)
    ELSE new(fdiv(self.x, len), fdiv(self.y, len))

normalized(self) ==
    LET len == length(self) IN new(fdiv(self.x, len), fdiv(self.y, len))

\* impl Add<Vec2> for Vec2
add_Vec2_Vec2(self, other) ==
    [x |-> fadd(self.x, other.x), y |-> fadd(self.y, other.y)]

\* impl Add<&Vec2> for Vec2
add_Vec2_RefVec2(self, other) ==
    [x |-> fadd(self.x, other.x), y |-> fadd(self.y, other.y)]

\* impl Add<&Vec2> for &Vec2
add_RefVec2_RefVec2(self, other) ==
    [x |-> fadd(self.x, other.x), y |-> fadd(self.y, other.y)]

\* Variant: y is summed with the x of `other`
add_RefVec2_Vec2_crossed(self, other) ==
    [x |-> fadd(self.x, other.x), y |-> fadd(self.y, other.x)]

\* impl Add<Vec2> for &Vec2
add_RefVec2_Vec2(self, other) ==
    [x |-> fadd(self.x, other.x), y |-> fadd(self.y, other.y)]

\* impl Add<f64> for Vec2
add_Vec2_f64(self, other) ==
    [x |-> fadd(self.x, other), y |-> fadd(self.y, other)]

\* impl Add<f64> for &Vec2
add_RefVec2_f64(self, other) ==
    [x |-> fadd(self.x, other), y |-> fadd(self.y, other)]

\* impl Sub<Vec2> for Vec2
sub_Vec2_Vec2(self, other) ==
    new(fsub(self.x, other.x), fsub(self.y, other.y))

\* impl Sub<&Vec2> for Vec2
sub_Vec2_RefVec2(self, other) ==
    new(fsub(self.x, other.x), fsub(self.y, other.y))

\* impl Sub<&Vec2> for &Vec2
sub_RefVec2_RefVec2(self, other) ==
    new(fsub(self.x, other.x), fsub(self.y, other.y))

\* impl Sub<Vec2> for &Vec2
sub_RefVec2_Vec2(self, other) ==
    new(fsub(self.x, other.x), fsub(self.y, other.y))

\* impl Sub<f64> for Vec2
sub_Vec2_f64(self, value) ==
    new(fsub(self.x, value), fsub(self.y, value))

\* Variant: the coordinates subtracted from the value
sub_RefVec2_f64_reversed(self, value) ==
    new(fsub(value, self.x), fsub(value, self.y))

\* impl Sub<f64> for &Vec2
sub_RefVec2_f64(self, value) ==
    new(fsub(self.x, value), fsub(self.y, value))

\* impl ApproxEq<Vec2> for Vec2
approx_eq_eps_Vec2_Vec2(self, other, eps) ==
    /\ flt(fabs(fsub(self.x, other.x)), eps.x)
    /\ flt(fabs(fsub(self.y, other.y)), eps.y)

approx_eq_Vec2_Vec2(self, other) ==
    approx_eq_eps_Vec2_Vec2(self, other, VEC2_EPSILON)

\* Variant: one Euclidean distance test instead of one test per axis
approx_eq_eps_Vec2_RefVec2_euclid(self, other, eps) ==
    flt(length(sub_Vec2_RefVec2(self, other)), length(eps))

\* impl ApproxEq<&Vec2> for Vec2
approx_eq_eps_Vec2_RefVec2(self, other, eps) ==
    /\ flt(fabs(fsub(self.x, other.x)), eps.x)
    /\ flt(fabs(fsub(self.y, other.y)), eps.y)

approx_eq_Vec2_RefVec2(self, other) ==
    approx_eq_eps_Vec2_RefVec2(self, other, VEC2_EPSILON)

\* Variant: the negated >= test, which is true for NaN
approx_eq_eps_RefVec2_RefVec2_negated(self, other, eps) ==
    /\ ~fle(eps.x, fabs(fsub(self.x, other.x)))
    /\ ~fle(eps.y, fabs(fsub(self.y, other.y)))

\* impl ApproxEq<&Vec2> for &Vec2
approx_eq_eps_RefVec2_RefVec2(self, other, eps) ==
    /\ flt(fabs(fsub(self.x, other.x)), eps.x)
    /\ flt(fabs(fsub(self.y, other.y)), eps.y)

approx_eq_RefVec2_RefVec2(self, other) ==
    approx_eq_eps_RefVec2_RefVec2(self, other, VEC2_EPSILON)

\* ------------------------------------------------------------------------
\* Callers: values are bound, then the operations are called on them
\* ------------------------------------------------------------------------
\* vself, vother, veps: the Vec2 receiver, argument and tolerance
\* fself, fother, feps: the f64 receiver, argument and tolerance
\* live: the bound values that have not been moved into a call (Vec2 is
\*       neither Copy nor Clone, so a by-value operand is consumed)
\* op, ret: the last call and what it returned
VARIABLES vself, vother, veps, fself, fother, feps, live, op, ret

operands == <<vself, vother, veps, fself, fother, feps>>
vars == <<vself, vother, veps, fself, fother, feps, live, op, ret>>

\* Input values: the special values and the neighbourhood of 1.0
Sample == {NAN, INFINITY, ZERO, PRED_ONE, ONE, SUCC_ONE, NEG_ONE}
NearOne == {NAN, PRED_ONE, ONE, SUCC_ONE}
EpsSample == {NAN, ZERO, EPSILON, INFINITY}
F64EpsSample == {NAN, NEG_ONE, ZERO, Fin(0, 1), EPSILON, INFINITY}

Unbound ==
    /\ op = "init"
    /\ ret = "none"

\* let v = Vec2::new(x, y)
InitVec ==
    /\ vself \in Vec2
    /\ vother = new(ZERO, ZERO) /\ veps = new(ZERO, ZERO)
    /\ fself = ZERO /\ fother = ZERO /\ feps = ZERO
    /\ live = {"vself"}
    /\ Unbound

\* two vectors
InitVecVec ==
    /\ vself \in [x : Sample, y : Sample]
    /\ vother \in [x : Sample, y : Sample]
    /\ veps = new(ZERO, ZERO)
    /\ fself = ZERO /\ fother = ZERO /\ feps = ZERO
    /\ live = {"vself", "vother"}
    /\ Unbound

\* two vectors and a tolerance pair
InitVecVecEps ==
    /\ vself \in [x : NearOne, y : NearOne]
    /\ vother \in [x : NearOne, y : NearOne]
    /\ veps \in [x : EpsSample, y : EpsSample]
    /\ fself = ZERO /\ fother = ZERO /\ feps = ZERO
    /\ live = {"vself", "vother", "veps"}
    /\ Unbound

\* a vector and a scalar
InitVecF64 ==
    /\ vself \in [x : Sample, y : Sample]
    /\ fother \in Sample
    /\ vother = new(ZERO, ZERO) /\ veps = new(ZERO, ZERO)
    /\ fself = ZERO /\ feps = ZERO
    /\ live = {"vself", "fother"}
    /\ Unbound

\* two scalars: any value against itself and against the sample values
InitF64 ==
    /\ fself \in F64
    /\ fother \in Sample \cup {fself}
    /\ feps = ZERO
    /\ vself = new(ZERO, ZERO) /\ vother = new(ZERO, ZERO)
    /\ veps = new(ZERO, ZERO)
    /\ live = {"fself", "fother"}
    /\ Unbound

\* two scalars and a tolerance
InitF64Eps ==
    /\ fself \in F64
    /\ fother \in Sample \cup {fself}
    /\ feps \in F64EpsSample
    /\ vself = new(ZERO, ZERO) /\ vother = new(ZERO, ZERO)
    /\ veps = new(ZERO, ZERO)
    /\ live = {"fself", "fother", "feps"}
    /\ Unbound

Init == \/ InitVec
        \/ InitVecVec
        \/ InitVecVecEps
        \/ InitVecF64
        \/ InitF64
        \/ InitF64Eps

\* What a call leaves behind: its name and result; the operands taken by
\* value (`moves`) are consumed, the others are only read.
Returns(name, result, moves) ==
    /\ op' = name
    /\ ret' = result
    /\ live' = live \ moves
    /\ UNCHANGED operands

Call_f64_approx_eq ==
    /\ live = {"fself", "fother"}
    /\ Returns("f64::approx_eq",
               f64_approx_eq(fself, fother),
               {})

Call_f64_approx_eq_eps ==
    /\ live = {"fself", "fother", "feps"}
    /\ Returns("f64::approx_eq_eps",
               f64_approx_eq_eps(fself, fother, feps),
               {})

Call_dot ==
    /\ live = {"vself", "vother"}
    /\ Returns("dot",
               dot(vself, vother),
               {})

Call_length ==
    /\ live = {"vself"}
    /\ Returns("length",
               length(vself),
               {})

Call_magnitude ==
    /\ live = {"vself"}
    /\ Returns("magnitude",
               magnitude(vself),
               {})

Call_normalized ==
    /\ live = {"vself"}
    /\ Returns("normalized",
               normalized(vself),
               {})

Call_add_Vec2_Vec2 ==
    /\ live = {"vself", "vother"}
    /\ Returns("Vec2 + Vec2",
               add_Vec2_Vec2(vself, vother),
               {"vself", "vother"})

Call_add_Vec2_RefVec2 ==
    /\ live = {"vself", "vother"}
    /\ Returns("Vec2 + &Vec2",
               add_Vec2_RefVec2(vself, vother),
               {"vself"})

Call_add_RefVec2_RefVec2 ==
    /\ live = {"vself", "vother"}
    /\ Returns("&Vec2 + &Vec2",
               add_RefVec2_RefVec2(vself, vother),
               {})

Call_add_RefVec2_Vec2 ==
    /\ live = {"vself", "vother"}
    /\ Returns("&Vec2 + Vec2",
               add_RefVec2_Vec2(vself, vother),
               {"vother"})

Call_add_Vec2_f64 ==
    /\ live = {"vself", "fother"}
    /\ Returns("Vec2 + f64",
               add_Vec2_f64(vself, fother),
               {"vself"})

Call_add_RefVec2_f64 ==
    /\ live = {"vself", "fother"}
    /\ Returns("&Vec2 + f64",
               add_RefVec2_f64(vself, fother),
               {})

Call_sub_Vec2_Vec2 ==
    /\ live = {"vself", "vother"}
    /\ Returns("Vec2 - Vec2",
               sub_Vec2_Vec2(vself, vother),
               {"vself", "vother"})

Call_sub_Vec2_RefVec2 ==
    /\ live = {"vself", "vother"}
    /\ Returns("Vec2 - &Vec2",
               sub_Vec2_RefVec2(vself, vother),
               {"vself"})

Call_sub_RefVec2_RefVec2 ==
    /\ live = {"vself", "vother"}
    /\ Returns("&Vec2 - &Vec2",
               sub_RefVec2_RefVec2(vself, vother),
               {})

Call_sub_RefVec2_Vec2 ==
    /\ live = {"vself", "vother"}
    /\ Returns("&Vec2 - Vec2",
               sub_RefVec2_Vec2(vself, vother),
               {"vother"})

Call_sub_Vec2_f64 ==
    /\ live = {"vself", "fother"}
    /\ Returns("Vec2 - f64",
               sub_Vec2_f64(vself, fother),
               {"vself"})

Call_sub_RefVec2_f64 ==
    /\ live = {"vself", "fother"}
    /\ Returns("&Vec2 - f64",
               sub_RefVec2_f64(vself, fother),
               {})

Call_approx_eq_eps_Vec2_Vec2 ==
    /\ live = {"vself", "vother", "veps"}
    /\ Returns("Vec2.approx_eq_eps(Vec2, Vec2)",
               approx_eq_eps_Vec2_Vec2(vself, vother, veps),
               {"vself", "vother", "veps"})

Call_approx_eq_eps_Vec2_RefVec2 ==
    /\ live = {"vself", "vother", "veps"}
    /\ Returns("Vec2.approx_eq_eps(&Vec2, &Vec2)",
               approx_eq_eps_Vec2_RefVec2(vself, vother, veps),
               {"vself"})

Call_approx_eq_eps_RefVec2_RefVec2 ==
    /\ live = {"vself", "vother", "veps"}
    /\ Returns("&Vec2.approx_eq_eps(&Vec2, &Vec2)",
               approx_eq_eps_RefVec2_RefVec2(vself, vother, veps),
               {})

Call_approx_eq_Vec2_Vec2 ==
    /\ live = {"vself", "vother"}
    /\ Returns("Vec2.approx_eq(Vec2)",
               approx_eq_Vec2_Vec2(vself, vother),
               {"vself", "vother"})

Call_approx_eq_Vec2_RefVec2 ==
    /\ live = {"vself", "vother"}
    /\ Returns("Vec2.approx_eq(&Vec2)",
               approx_eq_Vec2_RefVec2(vself, vother),
               {"vself"})

Call_approx_eq_RefVec2_RefVec2 ==
    /\ live = {"vself", "vother"}
    /\ Returns("&Vec2.approx_eq(&Vec2)",
               approx_eq_RefVec2_RefVec2(vself, vother),
               {})

Next == \/ Call_f64_approx_eq
        \/ Call_f64_approx_eq_eps
        \/ Call_dot
        \/ Call_length
        \/ Call_magnitude
        \/ Call_normalized
        \/ Call_add_Vec2_Vec2
        \/ Call_add_Vec2_RefVec2
        \/ Call_add_RefVec2_RefVec2
        \/ Call_add_RefVec2_Vec2
        \/ Call_add_Vec2_f64
        \/ Call_add_RefVec2_f64
        \/ Call_sub_Vec2_Vec2
        \/ Call_sub_Vec2_RefVec2
        \/ Call_sub_RefVec2_RefVec2
        \/ Call_sub_RefVec2_Vec2
        \/ Call_sub_Vec2_f64
        \/ Call_sub_RefVec2_f64
        \/ Call_approx_eq_eps_Vec2_Vec2
        \/ Call_approx_eq_eps_Vec2_RefVec2
        \/ Call_approx_eq_eps_RefVec2_RefVec2
        \/ Call_approx_eq_Vec2_Vec2
        \/ Call_approx_eq_Vec2_RefVec2
        \/ Call_approx_eq_RefVec2_RefVec2

Spec == Init /\ [][Next]_vars

\* ------------------------------------------------------------------------
\* Properties
\* ------------------------------------------------------------------------
AddVecOps == {"Vec2 + Vec2", "Vec2 + &Vec2", "&Vec2 + &Vec2", "&Vec2 + Vec2"}
AddF64Ops == {"Vec2 + f64", "&Vec2 + f64"}
SubVecOps == {"Vec2 - Vec2", "Vec2 - &Vec2", "&Vec2 - &Vec2", "&Vec2 - Vec2"}
SubF64Ops == {"Vec2 - f64", "&Vec2 - f64"}
VecApproxEqEpsOps == {"Vec2.approx_eq_eps(Vec2, Vec2)",
                      "Vec2.approx_eq_eps(&Vec2, &Vec2)",
                      "&Vec2.approx_eq_eps(&Vec2, &Vec2)"}
VecApproxEqOps == {"Vec2.approx_eq(Vec2)", "Vec2.approx_eq(&Vec2)",
                   "&Vec2.approx_eq(&Vec2)"}

HasNaN(v) == is_nan(v.x) \/ is_nan(v.y)
THREE_EPSILON == Fin(0, 3 * EpsMag)
\* x*x + y*y as length() computes it
SquaredLength(v) == fadd(fmul(v.x, v.x), fmul(v.y, v.y))

\* C1 as stated: for a finite a and any eps >= 0 (eps = 0 included),
\* a.approx_eq_eps(a, eps) is true.
C1_ReflexiveForNonNegativeEps ==
    (/\ op = "f64::approx_eq_eps"
     /\ is_finite(fself) /\ fother = fself
     /\ fle(ZERO, feps))
    => ret = TRUE

\* C1, amended: for a finite a and any eps > 0, a.approx_eq_eps(a, eps) is
\* true; with eps = 0 it is false, the test being a strict <.
C1_ReflexiveForPositiveEps ==
    (/\ op = "f64::approx_eq_eps"
     /\ is_finite(fself) /\ fother = fself)
    => /\ flt(ZERO, feps) => ret = TRUE
       /\ is_zero(feps) => ret = FALSE

C1_Witness ==
    /\ op = "f64::approx_eq_eps"
    /\ fself = MAX /\ fother = fself
    /\ feps = Fin(0, 1)
    /\ ret = TRUE

\* C2: Vec2 approx_eq_eps is true iff |a.x - b.x| < eps.x and
\* |a.y - b.y| < eps.y, each axis tested on its own with a strict <, and the
\* three owned/borrowed implementations agree.
C2_PerAxisStrictLessThan ==
    op \in VecApproxEqEpsOps =>
        LET xClose == flt(fabs(fsub(vself.x, vother.x)), veps.x)
            yClose == flt(fabs(fsub(vself.y, vother.y)), veps.y)
        IN /\ ret = (xClose /\ yClose)
           /\ approx_eq_eps_Vec2_Vec2(vself, vother, veps) = ret
           /\ approx_eq_eps_Vec2_RefVec2(vself, vother, veps) = ret
           /\ approx_eq_eps_RefVec2_RefVec2(vself, vother, veps) = ret

\* x is within its tolerance, y differs by exactly its tolerance: not equal
C2_Witness ==
    /\ op = "Vec2.approx_eq_eps(&Vec2, &Vec2)"
    /\ vself = new(ONE, ONE) /\ vother = new(PRED_ONE, SUCC_ONE)
    /\ veps = new(EPSILON, EPSILON)
    /\ ret = FALSE

\* C3 as stated: for every v with length > 0,
\* v.normalized().length().approx_eq(1.0) is true.
C3_NormalizedLengthApproxOne ==
    (op = "normalized" /\ flt(ZERO, length(vself)))
    => f64_approx_eq(length(ret), ONE)

\* C3, amended: for every v whose x*x + y*y, as computed, is a finite normal
\* number (no overflow, no underflow), the length of v.normalized() differs
\* from 1.0 by less than three machine epsilons.
C3_NormalizedLengthNearOne ==
    (op = "normalized" /\ is_normal(SquaredLength(vself)))
    => f64_approx_eq_eps(length(ret), ONE, THREE_EPSILON)

C3_Witness ==
    /\ op = "normalized"
    /\ is_normal(SquaredLength(vself))
    /\ ~is_zero(vself.x) /\ ~is_zero(vself.y)
    /\ length(ret) # ONE
    /\ f64_approx_eq_eps(length(ret), ONE, THREE_EPSILON)

\* C4 as stated: normalized() of a vector whose length is 0 returns NaN in
\* both coordinates.
C4_ZeroLengthGivesNaN ==
    (op = "normalized" /\ is_zero(length(vself)))
    => is_nan(ret.x) /\ is_nan(ret.y)

\* C4, amended: normalized() of a vector whose length is 0 returns, per
\* coordinate, NaN where the coordinate is zero and the infinity of the
\* coordinate's sign where it is not (its square underflowed to 0); so the
\* zero vector gives (NaN, NaN), and no call fails.
C4_ZeroLengthGivesNaNOrInfinity ==
    (op = "normalized" /\ is_zero(length(vself)))
    => /\ ret.x = (IF is_zero(vself.x) THEN NAN ELSE Inf(vself.x.sign))
       /\ ret.y = (IF is_zero(vself.y) THEN NAN ELSE Inf(vself.y.sign))

C4_Witness ==
    /\ op = "normalized"
    /\ vself = new(ZERO, NEG_ZERO)
    /\ ret = new(NAN, NAN)

\* C5: approx_eq and approx_eq_eps return a boolean, and return false
\* whenever a compared value or the tolerance is NaN (for Vec2: whenever a
\* coordinate of either vector or of the tolerance is NaN).
C5_NaNComparesFalse ==
    /\ op = "f64::approx_eq_eps" =>
          /\ ret \in BOOLEAN
          /\ (is_nan(fself) \/ is_nan(fother) \/ is_nan(feps)) => ret = FALSE
    /\ op = "f64::approx_eq" =>
          /\ ret \in BOOLEAN
          /\ (is_nan(fself) \/ is_nan(fother)) => ret = FALSE
    /\ op \in VecApproxEqEpsOps =>
          /\ ret \in BOOLEAN
          /\ (HasNaN(vself) \/ HasNaN(vother) \/ HasNaN(veps)) => ret = FALSE
    /\ op \in VecApproxEqOps =>
          /\ ret \in BOOLEAN
          /\ (HasNaN(vself) \/ HasNaN(vother)) => ret = FALSE

\* a NaN coordinate under an infinite tolerance
C5_Witness ==
    /\ op = "&Vec2.approx_eq_eps(&Vec2, &Vec2)"
    /\ vself = new(ONE, NAN) /\ vother = new(ONE, ONE)
    /\ veps = new(INFINITY, INFINITY)
    /\ ret = FALSE

\* C6: approx_eq(a, b) is approx_eq_eps(a, b, default tolerance): for f64
\* the tolerance is EPSILON, so the result is |a - b| < EPSILON; for every
\* Vec2 implementation it is the pair (EPSILON, EPSILON).
C6_ApproxEqUsesDefaultTolerance ==
    /\ op = "f64::approx_eq" =>
          /\ ret = f64_approx_eq_eps(fself, fother, EPSILON)
          /\ ret = flt(fabs(fsub(fself, fother)), EPSILON)
    /\ op = "Vec2.approx_eq(Vec2)" =>
          ret = approx_eq_eps_Vec2_Vec2(vself, vother, new(EPSILON, EPSILON))
    /\ op = "Vec2.approx_eq(&Vec2)" =>
          ret = approx_eq_eps_Vec2_RefVec2(vself, vother,
                                           new(EPSILON, EPSILON))
    /\ op = "&Vec2.approx_eq(&Vec2)" =>
          ret = approx_eq_eps_RefVec2_RefVec2(vself, vother,
                                              new(EPSILON, EPSILON))

\* two values exactly EPSILON apart are not approximately equal
C6_Witness ==
    /\ op = "f64::approx_eq"
    /\ fself = SUCC_ONE /\ fother = ONE
    /\ ret = FALSE

\* C7: a + b is (a.x + b.x, a.y + b.y) and a + s is (a.x + s, a.y + s),
\* whichever of the owned/borrowed implementations is called.
C7_AdditionIsComponentwise ==
    /\ op \in AddVecOps =>
          /\ ret = new(fadd(vself.x, vother.x), fadd(vself.y, vother.y))
          /\ add_Vec2_Vec2(vself, vother) = ret
          /\ add_Vec2_RefVec2(vself, vother) = ret
          /\ add_RefVec2_RefVec2(vself, vother) = ret
          /\ add_RefVec2_Vec2(vself, vother) = ret
    /\ op \in AddF64Ops =>
          /\ ret = new(fadd(vself.x, fother), fadd(vself.y, fother))
          /\ add_Vec2_f64(vself, fother) = ret
          /\ add_RefVec2_f64(vself, fother) = ret

C7_Witness ==
    /\ op = "&Vec2 + Vec2"
    /\ vself = new(ONE, ZERO) /\ vother = new(NEG_ONE, PRED_ONE)
    /\ ret = new(ZERO, PRED_ONE)

C9_LengthIsSqrtOfDot ==
    /\ op = "length" =>
          /\ ret = fsqrt(dot(vself, vself))
          /\ ret.sign = 0 /\ ~flt(ret, ZERO)
          /\ magnitude(vself) = ret
    /\ op = "magnitude" =>
          /\ ret = fsqrt(dot(vself, vself))
          /\ ret.sign = 0 /\ ~flt(ret, ZERO)
          /\ length(vself) = ret

C9_Witness ==
    /\ op = "length"
    /\ vself.x.sign = 1 /\ vself.y.sign = 1
    /\ is_finite(ret) /\ flt(ONE, ret)
    /\ fmul(ret, ret) = SquaredLength(vself)

\* C10: a.dot(b) returns a.x*b.x + a.y*b.y, equals b.dot(a), and only reads
\* its operands: both keep their value and stay usable after the call.
C10_DotIsCommutativeAndReadOnly ==
    [][op' = "dot" =>
          /\ ret' = fadd(fmul(vself.x, vother.x), fmul(vself.y, vother.y))
          /\ ret' = dot(vother, vself)
          /\ vself' = vself /\ vother' = vother
          /\ live' = {"vself", "vother"}]_vars

C10_Witness ==
    /\ op = "dot"
    /\ vself = new(ONE, NEG_ONE) /\ vother = new(SUCC_ONE, PRED_ONE)
    /\ is_finite(ret) /\ ~is_zero(ret)
    /\ live = {"vself", "vother"}

====
